---------------------------- MODULE Spec2Model ----------------------------
(***************************************************************************)
(* ts-to-zod command line: the nested discovery scheduler                  *)
(* (TsToZod.performFileDiscovery, TsToZod.runNestedGeneration) and the     *)
(* per-file generation pipeline (TsToZod.generate over the steps of        *)
(* cli/generate-steps.ts).                                                 *)
(*                                                                         *)
(* Files are numbered 1..NumFiles; file Seed is the input argument.  What  *)
(* a file imports is an input: it is drawn when discovery reads the file.  *)
(* The JavaScript run is single threaded: an action is the code that runs  *)
(* between two awaits that suspend on I/O (a file read, the validation     *)
(* worker, a file write).                                                  *)
(***************************************************************************)
EXTENDS Naturals, Sequences, FiniteSets

\* ---------------------------------------------------------------- bounds
\* NumFiles files exist; a file holds at most MaxImports import declarations
\* and the files read hold at most MaxEdges distinct imports together;
\* --maxDepth ranges over 0..MaxDepthBound; readFile fails on at most
\* MaxUnreadable files.  A config file for --all lists NumConfigs configs;
\* the core generation returns at most MaxDiagnostics diagnostics and the
\* type-checking worker at most MaxErrors errors.
NumFiles == 4
MaxImports == 2
MaxEdges == 5
MaxDepthBound == 2
MaxUnreadable == 1
NumConfigs == 2
MaxDiagnostics == 2
MaxErrors == 2

Files == 1..NumFiles
Seed == 1
DefaultMaxDepth == 5
\* run lines 146-169: the configs of the config file, in its order
Configs == { c \in Files : c <= NumConfigs }

VARIABLES
    mode,                 \* "nested" (--generateNested), "single" (one generate
                          \* call) or "multi" (--all: one call per config)
    maxDepth,             \* cliFlags.maxDepth
    skipValidation,       \* cliFlags.skipValidation
    unreadable,           \* the files readFile fails on during discovery
    args,                 \* the INPUT and OUTPUT arguments (their extensions, "" = absent)
    fileConfig,           \* per generate call: the config's input and output
    inferredTypes,        \* cliFlags.inferredTypes is given
    configImports,        \* --all: config -> the configs whose output its input imports
    given,                \* which of --keepComments, --skipParseJSDoc the user passed
    fileOptions,          \* keepComments, skipParseJSDoc, inferredTypes of the file config
    relativePath,         \* per file: its path, relative to the working directory
    \* performFileDiscovery
    discoveredFileInfos,  \* the keys of the map, in insertion order
    localImportAbsPaths,  \* the map's values: file -> set of imported files
    stack,                \* the pending calls of performFileDiscovery
    depthWarnings,        \* files named by a "Maximum depth" warning
    skipped,              \* files named by a "Skipping already processed file" message
    recordCount,          \* per file: how often discoveredFileInfos.set ran
    exploreCount,         \* per file: how often its imports were read and scanned
    truncatedImports,     \* per file discovery stopped at: recorded files its source imports
    \* runNestedGeneration
    pc,
    dependencies,         \* configsForGeneration: file -> dependencies
    generationQueue,
    generatedConfigIds,
    totalGeneratedCount,
    batchToGenerate,
    batches,              \* the batches started so far, in order
    errKind,              \* the fatal error raised by this.error
    errFiles,             \* the files the error message names
    \* generate
    stage,                \* per call: where the generate call is
    result,               \* per call: what the call returned
    coreCircular,         \* per call: hasCircularDependencies of the core result
    coreErrors,           \* per call: the number of diagnostics of the core result
    validatorCalls,       \* per call: invocations of the type-checking worker
    writes,               \* per call: how often the output file was written
    inferredWrites,       \* per call: how often the inferred-types file was written
    warnings,             \* per call: diagnostics passed to this.warn
    validationErrors,     \* per call: the list the type-checking worker returned
    error,                \* per call: the error text of a failure result
    generateOptions       \* per call: the options handed to the core generation

vars == << mode, maxDepth, skipValidation, unreadable, args, fileConfig,
           inferredTypes, configImports, given, fileOptions, relativePath,
           discoveredFileInfos, localImportAbsPaths, stack, depthWarnings,
           skipped, recordCount, exploreCount, truncatedImports,
           pc, dependencies, generationQueue, generatedConfigIds,
           totalGeneratedCount, batchToGenerate, batches, errKind, errFiles,
           stage, result, coreCircular, coreErrors, validatorCalls, writes,
           inferredWrites, warnings, validationErrors, error, generateOptions >>

discoveryVars == << discoveredFileInfos, localImportAbsPaths, stack,
                    depthWarnings, skipped, recordCount, exploreCount,
                    truncatedImports >>
schedulerVars == << dependencies, generationQueue, generatedConfigIds,
                    totalGeneratedCount, batchToGenerate, batches,
                    errKind, errFiles >>
generateVars  == << stage, result, coreCircular, coreErrors, validatorCalls, writes,
                    inferredWrites, warnings, validationErrors, error, generateOptions >>
inputVars     == << mode, maxDepth, skipValidation, unreadable, args, fileConfig,
                    inferredTypes, configImports, given, fileOptions,
                    relativePath >>

\* --------------------------------------------------------------- helpers
Range(s) == { s[i] : i \in 1..Len(s) }

RECURSIVE SelectSeqOp(_, _)
\* Array.prototype.filter with the predicate given as a set of kept values
SelectSeqOp(s, keep) ==
    IF s = << >> THEN << >>
    ELSE IF Head(s) \in keep
         THEN << Head(s) >> \o SelectSeqOp(Tail(s), keep)
         ELSE SelectSeqOp(Tail(s), keep)

RECURSIVE Uniq(_)
\* lodash uniq: the first occurrence of every value, in order
Uniq(s) ==
    IF s = << >> THEN << >>
    ELSE LET r == Uniq(SubSeq(s, 1, Len(s) - 1))
         IN  IF s[Len(s)] \in Range(r) THEN r ELSE Append(r, s[Len(s)])

\* The import declarations of one source file, already resolved to existing
\* local .ts/.tsx files, in source order (a file may be imported twice).
ImportLists ==
    UNION { [1..n -> Files] : n \in 0..MaxImports }

\* file extensions an argument or a config path may carry ("" = no path)
TYPESCRIPT_EXTENSIONS == { ".ts", ".tsx" }
JAVASCRIPT_EXTENSIONS == { ".js", ".jsx" }
InputExts  == { "", ".ts", ".txt" }
OutputExts == { "", ".ts", ".js", ".txt" }

NoConfig == [ input |-> "", output |-> "" ]

\* the entries of a multi-config file name an input and an output
ConfigEntries == [ input : { ".ts", ".txt" }, output : { ".ts", ".txt" } ]

\* --all: the imports between the configs, at most one of them
ConfigImportChoices ==
    { [ c \in Files |-> { } ] } \cup
    { [ c \in Files |-> IF c = p[2] THEN { p[1] } ELSE { } ] :
        p \in { q \in Configs \X Configs : q[1] # q[2] } }

\* what the type-checking worker returns: a list of error strings
ErrorStrings == { "e1", "e2" }
ErrorLists(n) == UNION { [ 1..k -> ErrorStrings ] : k \in 0..n }

RECURSIVE Join(_, _)
\* Array.prototype.join: a text is kept as the sequence of its pieces
Join(lines, separator) ==
    IF lines = << >> THEN << >>
    ELSE IF Len(lines) = 1 THEN << lines[1] >>
    ELSE << Head(lines), separator >> \o Join(Tail(lines), separator)

\* utils.ts hasExtensions: a path is kept as its extension (path.parse(p).ext)
hasExtensions(path, extensions) == path \in extensions

\* an option is kept as text: "undefined" where the code has no value
NoFlagsGiven == [ keepComments |-> FALSE, skipParseJSDoc |-> FALSE ]
NoOptions ==
    [ keepComments |-> "undefined", skipParseJSDoc |-> "undefined",
      inferredTypes |-> "undefined" ]

\* the options a file config may set
FileOptionChoices ==
    [ keepComments : { "undefined", "true", "false" },
      skipParseJSDoc : { "undefined", "true", "false" },
      inferredTypes : { "undefined", "config.ts" } ]

\* A path is kept as the name of the file, the number of ".zod" the name
\* ends with, and the extension: a.zod.ts is [ name |-> 1, zods |-> 1, ext |-> ".ts" ].
Path(name, zods, ext) == [ name |-> name, zods |-> zods, ext |-> ext ]

\* a directory where file f is named after f: no two names are alike
PlainPaths(seedExt) ==
    [ f \in Files |-> Path(f, 0, IF f = Seed THEN seedExt ELSE ".ts") ]

\* directories where the first import read may bear the name of the seed, as
\* a .ts or .tsx file or as the .zod.ts file next to it
PathChoices(seedExt) ==
    { [ f \in Files |-> IF f = 2 THEN p ELSE PlainPaths(seedExt)[f] ] :
        p \in { q \in [ name : { Seed, 2 }, zods : { 0, 1 }, ext : { ".ts", ".tsx" } ] :
                  q # PlainPaths(seedExt)[Seed] } }

\* ------------------------------------------------------------------ Init
\* the run has not started: nothing discovered, scheduled or generated
NothingRun ==
    /\ unreadable = { }
    /\ discoveredFileInfos = << >>
    /\ localImportAbsPaths = [ f \in Files |-> { } ]
    /\ stack = << >>
    /\ depthWarnings = { }
    /\ skipped = { }
    /\ recordCount = [ f \in Files |-> 0 ]
    /\ exploreCount = [ f \in Files |-> 0 ]
    /\ truncatedImports = [ f \in Files |-> { } ]
    /\ pc = "run"
    /\ dependencies = [ f \in Files |-> { } ]
    /\ generationQueue = << >>
    /\ generatedConfigIds = { }
    /\ totalGeneratedCount = 0
    /\ batchToGenerate = << >>
    /\ batches = << >>
    /\ errKind = "none"
    /\ errFiles = { }
    /\ stage = [ f \in Files |-> "idle" ]
    /\ result = [ f \in Files |-> "none" ]
    /\ coreCircular = [ f \in Files |-> FALSE ]
    /\ coreErrors = [ f \in Files |-> 0 ]
    /\ validatorCalls = [ f \in Files |-> 0 ]
    /\ writes = [ f \in Files |-> 0 ]
    /\ inferredWrites = [ f \in Files |-> 0 ]
    /\ warnings = [ f \in Files |-> 0 ]
    /\ validationErrors = [ f \in Files |-> << >> ]
    /\ error = [ f \in Files |-> << >> ]
    /\ generateOptions = [ f \in Files |-> NoOptions ]

Init ==
    /\ mode \in { "nested", "single", "multi" }
    /\ maxDepth \in IF mode = "nested" THEN 0..MaxDepthBound ELSE { DefaultMaxDepth }
    /\ skipValidation \in BOOLEAN
    /\ args \in CASE mode = "nested" -> [ input : InputExts, output : { "" } ]
                  [] mode = "single" -> [ input : InputExts, output : OutputExts ]
                  [] mode = "multi"  -> [ input : { "", ".ts" }, output : { "", ".ts" } ]
    /\ fileConfig \in
          CASE mode = "nested" -> { [ f \in Files |-> NoConfig ] }
            [] mode = "single" ->
                 { [ f \in Files |-> IF f = Seed THEN c ELSE NoConfig ] :
                      c \in [ input : InputExts, output : OutputExts ] }
            [] mode = "multi" ->
                 { [ f \in Files |-> IF f \in Configs THEN cs[f] ELSE NoConfig ] :
                      cs \in [ Configs -> ConfigEntries ] }
    /\ inferredTypes \in IF mode = "nested" THEN { FALSE } ELSE BOOLEAN
    /\ configImports \in IF mode = "multi"
                         THEN ConfigImportChoices
                         ELSE { [ c \in Files |-> { } ] }
    /\ given = NoFlagsGiven
    /\ fileOptions = NoOptions
    /\ relativePath = PlainPaths(args.input)
    /\ NothingRun

\* -------------------------------------------------- performFileDiscovery
Top == stack[Len(stack)]
Pop == SubSeq(stack, 1, Len(stack) - 1)
Has(f) == f \in Range(discoveredFileInfos)

\* The files some import declaration read so far resolves to, and the seed.
Referenced == { Seed } \cup UNION { localImportAbsPaths[f] : f \in Files }

\* File names carry no meaning to the scheduler: a file that no import read so
\* far names gets the least unused number, in order of appearance.
RECURSIVE CanonicalFrom(_, _)
CanonicalFrom(imps, known) ==
    IF imps = << >> THEN TRUE
    ELSE \/ /\ Head(imps) \in known
            /\ CanonicalFrom(Tail(imps), known)
         \/ /\ Head(imps) \notin known
            /\ \A g \in Files \ known : Head(imps) <= g
            /\ CanonicalFrom(Tail(imps), known \cup { Head(imps) })

RECURSIVE EdgesUpTo(_)
EdgesUpTo(n) ==
    IF n = 0 THEN 0 ELSE Cardinality(localImportAbsPaths[n]) + EdgesUpTo(n - 1)

\* The import edges read so far.
EdgeCount == EdgesUpTo(NumFiles)

\* a visit without the check of lines 459-464: the file is read and
\* recorded again
VisitSkipRescans ==
    /\ pc = "discover" /\ stack # << >> /\ Top.st = "call"
    /\ Top.depth <= maxDepth
    /\ Has(Top.file)
    /\ discoveredFileInfos' = Append(discoveredFileInfos, Top.file)
    /\ recordCount' = [ recordCount EXCEPT ![Top.file] = @ + 1 ]
    /\ exploreCount' = [ exploreCount EXCEPT ![Top.file] = @ + 1 ]
    /\ stack' = Append(Pop, [ Top EXCEPT !.st = "loop" ])
    /\ UNCHANGED << localImportAbsPaths, depthWarnings, skipped >>
    /\ UNCHANGED << inputVars, pc, schedulerVars, generateVars, truncatedImports >>

\* lines 459-464: an already recorded file is skipped
VisitSkip ==
    /\ pc = "discover" /\ stack # << >> /\ Top.st = "call"
    /\ Top.depth <= maxDepth
    /\ Has(Top.file)
    /\ skipped' = skipped \cup { Top.file }
    /\ stack' = Pop
    /\ UNCHANGED << discoveredFileInfos, localImportAbsPaths, depthWarnings,
                    recordCount, exploreCount >>
    /\ UNCHANGED << inputVars, pc, schedulerVars, generateVars, truncatedImports >>

\* lines 471-481: readFile throws; the call warns and returns
VisitUnreadable ==
    /\ pc = "discover" /\ stack # << >> /\ Top.st = "call"
    /\ Top.depth <= maxDepth
    /\ ~ Has(Top.file)
    /\ \/ Top.file \in unreadable
       \/ Cardinality(unreadable) < MaxUnreadable
    /\ unreadable' = unreadable \cup { Top.file }
    /\ stack' = Pop
    /\ UNCHANGED << discoveredFileInfos, localImportAbsPaths, depthWarnings,
                    skipped, recordCount, exploreCount >>
    /\ UNCHANGED << mode, maxDepth, skipValidation, args, fileConfig,
                    inferredTypes, configImports, given, fileOptions,
                    relativePath >>
    /\ UNCHANGED << pc, schedulerVars, generateVars, truncatedImports >>

\* lines 483-541: the file is recorded, then its import declarations are
\* scanned: each goes into localImportAbsPaths, and the ones not recorded
\* yet are queued for the recursion (uniq, line 543).
ScanImports(f, imps) ==
    /\ discoveredFileInfos' = Append(discoveredFileInfos, f)
    /\ recordCount' = [ recordCount EXCEPT ![f] = @ + 1 ]
    /\ exploreCount' = [ exploreCount EXCEPT ![f] = @ + 1 ]
    /\ localImportAbsPaths' = [ localImportAbsPaths EXCEPT ![f] = Range(imps) ]
    /\ stack' = Append(Pop,
           [ file |-> f, depth |-> Top.depth, st |-> "loop",
             todo |-> Uniq(SelectSeqOp(imps, Files \ (Range(discoveredFileInfos) \cup { f }))) ])

\* a depth check that warns and goes on to record the file
VisitTooDeepStillRecords ==
    /\ pc = "discover" /\ stack # << >> /\ Top.st = "call"
    /\ Top.depth > maxDepth
    /\ depthWarnings' = depthWarnings \cup { Top.file }
    /\ IF Has(Top.file) \/ Top.file \in unreadable
       THEN /\ stack' = Pop
            /\ UNCHANGED << discoveredFileInfos, localImportAbsPaths,
                            recordCount, exploreCount >>
       ELSE \E imps \in ImportLists :
               /\ CanonicalFrom(imps, Referenced)
               /\ EdgeCount + Cardinality(Range(imps)) <= MaxEdges
               /\ ScanImports(Top.file, imps)
    /\ UNCHANGED skipped
    /\ UNCHANGED << inputVars, pc, schedulerVars, generateVars, truncatedImports >>

\* lines 450-457: past maxDepth the call warns and returns
VisitTooDeep ==
    /\ pc = "discover" /\ stack # << >> /\ Top.st = "call"
    /\ Top.depth > maxDepth
    /\ depthWarnings' = depthWarnings \cup { Top.file }
    /\ stack' = Pop
    /\ UNCHANGED << discoveredFileInfos, localImportAbsPaths, skipped,
                    recordCount, exploreCount >>
    /\ UNCHANGED << inputVars, pc, schedulerVars, generateVars, truncatedImports >>

\* lines 450-457 at a file that was not read: discovery leaves it as it is
\* on disk, here with an import of a recorded file in its source.  The run
\* never reads that import: the step is VisitTooDeep to the program, and is
\* taken under CycleSpec only, which looks at the files left out.
VisitTooDeepImporting ==
    /\ pc = "discover" /\ stack # << >> /\ Top.st = "call"
    /\ Top.depth > maxDepth
    /\ ~ Has(Top.file)
    /\ \E g \in Range(discoveredFileInfos) \ truncatedImports[Top.file] :
          /\ hasExtensions(args.input, TYPESCRIPT_EXTENSIONS) \/ g # Seed
          /\ truncatedImports' = [ truncatedImports EXCEPT ![Top.file] = @ \cup { g } ]
    /\ depthWarnings' = depthWarnings \cup { Top.file }
    /\ stack' = Pop
    /\ UNCHANGED << discoveredFileInfos, localImportAbsPaths, skipped,
                    recordCount, exploreCount >>
    /\ UNCHANGED << inputVars, pc, schedulerVars, generateVars >>

VisitRecord ==
    /\ pc = "discover" /\ stack # << >> /\ Top.st = "call"
    /\ Top.depth <= maxDepth
    /\ ~ Has(Top.file)
    /\ Top.file \notin unreadable
    /\ \E imps \in ImportLists :
          /\ CanonicalFrom(imps, Referenced)
          /\ truncatedImports[Top.file] \subseteq Range(imps)
          \* lines 520-523: only a .ts or .tsx file is an import to follow
          /\ hasExtensions(args.input, TYPESCRIPT_EXTENSIONS) \/ Seed \notin Range(imps)
          /\ EdgeCount + Cardinality(Range(imps)) <= MaxEdges
          /\ ScanImports(Top.file, imps)
    /\ UNCHANGED << depthWarnings, skipped >>
    /\ UNCHANGED << inputVars, pc, schedulerVars, generateVars, truncatedImports >>

\* a loop that never moves on to the next queued import
ExploreNextNoAdvance ==
    /\ pc = "discover" /\ stack # << >> /\ Top.st = "loop"
    /\ Top.todo # << >>
    /\ stack' = Append(stack,
                       [ file |-> Head(Top.todo), depth |-> Top.depth + 1,
                         st |-> "call", todo |-> << >> ])
    /\ UNCHANGED << discoveredFileInfos, localImportAbsPaths, depthWarnings,
                    skipped, recordCount, exploreCount >>
    /\ UNCHANGED << inputVars, pc, schedulerVars, generateVars, truncatedImports >>

\* lines 543-550: the next queued import is explored one level deeper
ExploreNext ==
    /\ pc = "discover" /\ stack # << >> /\ Top.st = "loop"
    /\ Top.todo # << >>
    /\ stack' = Append(Append(Pop, [ Top EXCEPT !.todo = Tail(@) ]),
                       [ file |-> Head(Top.todo), depth |-> Top.depth + 1,
                         st |-> "call", todo |-> << >> ])
    /\ UNCHANGED << discoveredFileInfos, localImportAbsPaths, depthWarnings,
                    skipped, recordCount, exploreCount >>
    /\ UNCHANGED << inputVars, pc, schedulerVars, generateVars, truncatedImports >>

\* line 551: the loop is over, the call returns
ReturnFromDiscovery ==
    /\ pc = "discover" /\ stack # << >> /\ Top.st = "loop"
    /\ Top.todo = << >>
    /\ stack' = Pop
    /\ UNCHANGED << discoveredFileInfos, localImportAbsPaths, depthWarnings,
                    skipped, recordCount, exploreCount >>
    /\ UNCHANGED << inputVars, pc, schedulerVars, generateVars, truncatedImports >>

DiscoveryNext ==
    \/ VisitTooDeep
    \/ VisitSkip
    \/ VisitUnreadable
    \/ VisitRecord
    \/ ExploreNext
    \/ ReturnFromDiscovery

\* ---------------------------------------------------------------- generate
\* the arguments of the generate call: none in nested mode (line 388)
GenArgs == IF mode = "nested" THEN NoConfig ELSE args

\* prepareGeneratorConfig lines 51-52: a || b on strings
OrElse(a, b) == IF a # "" THEN a ELSE b

\* prepareGeneratorConfig lines 51-94, up to the read of the source file
PrepareOutcome(cfg) ==
    LET input  == OrElse(GenArgs.input, cfg.input)
        output == OrElse(GenArgs.output, cfg.output)
    IN  IF input = "" THEN "missingInput"
        ELSE IF \/ ~ hasExtensions(input, TYPESCRIPT_EXTENSIONS)
                \/ /\ output # ""
                   /\ ~ hasExtensions(output, TYPESCRIPT_EXTENSIONS \cup JAVASCRIPT_EXTENSIONS)
             THEN "badExtension"
             ELSE "ok"

\* generate line 236
OutputProvided(cfg) == OrElse(GenArgs.output, cfg.output) # ""

\* a check that forgets the output path
CoreFailsWheneverCircular(circular, outputProvided) == circular

\* executeCoreGeneration lines 137-144
CoreFails(circular, outputProvided) == circular /\ ~ outputProvided

\* a check of the extensions that stops at the input path
ExtErrorsInputOnly(cfg) ==
    LET input == OrElse(GenArgs.input, cfg.input)
    IN  IF ~ hasExtensions(input, TYPESCRIPT_EXTENSIONS) THEN << input >> ELSE << >>

\* prepareGeneratorConfig lines 65-80: the paths with an unexpected extension
ExtErrors(cfg) ==
    LET input  == OrElse(GenArgs.input, cfg.input)
        output == OrElse(GenArgs.output, cfg.output)
    IN  (IF ~ hasExtensions(input, TYPESCRIPT_EXTENSIONS)
         THEN << input >> ELSE << >>)
        \o
        (IF /\ output # ""
            /\ ~ hasExtensions(output, TYPESCRIPT_EXTENSIONS \cup JAVASCRIPT_EXTENSIONS)
         THEN << output >> ELSE << >>)

\* prepareGeneratorConfig lines 54-94: the error text of a failure result
PrepareError(cfg) ==
    CASE PrepareOutcome(cfg) = "missingInput" -> << "Missing 1 required arg" >>
      [] PrepareOutcome(cfg) = "badExtension" ->
            << "Unexpected file extension:", "\n" >> \o Join(ExtErrors(cfg), "\n")
      [] OTHER -> << >>

\* a call that goes on to read the source whatever the check of the paths says
StageAfterCallIgnoringPrepare(cfg) == "reading"

\* generate lines 223-232: the call runs up to the await of the file read,
\* or returns the failure of prepareGeneratorConfig
StageAfterCall(cfg) == IF PrepareOutcome(cfg) = "ok" THEN "reading" ELSE "failed"
ResultAfterCall(cfg) == IF PrepareOutcome(cfg) = "ok" THEN "none" ELSE PrepareOutcome(cfg)

\* a failure result that ends the run in every mode
FailCallExits(t, reason) ==
    /\ stage' = [ stage EXCEPT ![t] = "failed" ]
    /\ result' = [ result EXCEPT ![t] = reason ]
    /\ IF pc \in { "batch", "multi" }
       THEN /\ pc' = "aborted"
            /\ errKind' = IF mode = "nested" THEN "batch" ELSE "generate"
            /\ errFiles' = { t }
       ELSE UNCHANGED << pc, errKind, errFiles >>

\* a failure that is recorded and never reaches the scheduler
FailCallSwallowed(t, reason) ==
    /\ stage' = [ stage EXCEPT ![t] = "failed" ]
    /\ result' = [ result EXCEPT ![t] = reason ]
    /\ UNCHANGED << pc, errKind, errFiles >>

\* runNestedGeneration lines 399-414: a failed generate call rejects its
\* promise, Promise.all rejects and the catch block raises the fatal error.
\* This runs in microtasks, before any other I/O completes; a call that
\* fails after the run was aborted rejects a promise nobody awaits.
\* run lines 162-166: with --all the error is reported and the run goes on.
FailCall(t, reason) ==
    /\ stage' = [ stage EXCEPT ![t] = "failed" ]
    /\ result' = [ result EXCEPT ![t] = reason ]
    /\ CASE mode = "nested" /\ pc = "batch" ->
              /\ pc' = "aborted"
              /\ errKind' = "batch"
              /\ errFiles' = { t }
         [] mode = "multi" ->
              /\ errFiles' = errFiles \cup { t }
              /\ UNCHANGED << pc, errKind >>
         [] OTHER -> UNCHANGED << pc, errKind, errFiles >>

\* a call that gives up when the core generation reports diagnostics
ContinueAfterCoreStopsOnDiagnostics(t, diagnostics) ==
    /\ warnings' = [ warnings EXCEPT ![t] = diagnostics ]
    /\ IF diagnostics > 0
       THEN /\ FailCall(t, "diagnostics")
            /\ UNCHANGED validatorCalls
       ELSE /\ IF ~ skipValidation
               THEN /\ stage' = [ stage EXCEPT ![t] = "validating" ]
                    /\ validatorCalls' = [ validatorCalls EXCEPT ![t] = @ + 1 ]
               ELSE /\ stage' = [ stage EXCEPT ![t] = "writing" ]
                    /\ UNCHANGED validatorCalls
            /\ UNCHANGED << result, pc, errKind, errFiles >>
    /\ UNCHANGED error

\* a call that validates whatever --skipValidation says
ContinueAfterCoreAlwaysValidates(t, diagnostics) ==
    /\ warnings' = [ warnings EXCEPT ![t] = diagnostics ]
    /\ stage' = [ stage EXCEPT ![t] = "validating" ]
    /\ validatorCalls' = [ validatorCalls EXCEPT ![t] = @ + 1 ]
    /\ UNCHANGED << result, pc, errKind, errFiles, error >>

\* generate lines 248-266: every diagnostic of the core result is passed to
\* this.warn, then the validation is started unless --skipValidation, else
\* the write
ContinueAfterCore(t, diagnostics) ==
    /\ warnings' = [ warnings EXCEPT ![t] = diagnostics ]
    /\ IF ~ skipValidation
       THEN /\ stage' = [ stage EXCEPT ![t] = "validating" ]
            /\ validatorCalls' = [ validatorCalls EXCEPT ![t] = @ + 1 ]
       ELSE /\ stage' = [ stage EXCEPT ![t] = "writing" ]
            /\ UNCHANGED validatorCalls
    /\ UNCHANGED << result, pc, errKind, errFiles, error >>

\* utils.ts createFlags lines 43-61 as parsed by run line 118: a boolean
\* flag the user did not pass has its default when it declares one, else no
\* value; a string flag the user did not pass has no value
cliFlags ==
    [ keepComments   |-> IF given.keepComments THEN "true" ELSE "undefined",
      skipParseJSDoc |-> IF given.skipParseJSDoc THEN "true" ELSE "false",
      inferredTypes  |-> IF inferredTypes THEN "cli.ts" ELSE "undefined" ]

\* a || false
OrFalse(a) == IF a = "true" THEN "true" ELSE "false"

\* the option fields of the config a generate call is given: the file
\* config, or in nested mode the config of lines 326-332
ConfigOptions ==
    IF mode = "nested"
    THEN [ keepComments   |-> OrFalse(cliFlags.keepComments),
           skipParseJSDoc |-> OrFalse(cliFlags.skipParseJSDoc),
           inferredTypes  |-> "undefined" ]
    ELSE fileOptions

\* typeof v === "boolean", typeof v === "string"
IsBoolean(v) == v \in { "true", "false" }
IsString(v) == v # "undefined"

\* prepareGeneratorConfig lines 104-118: the options of the config, each
\* replaced by the flag when the flag holds a value of its type
GenerateOptionsOf(config, flags) ==
    [ keepComments   |-> IF IsBoolean(flags.keepComments)
                         THEN flags.keepComments ELSE config.keepComments,
      skipParseJSDoc |-> IF IsBoolean(flags.skipParseJSDoc)
                         THEN flags.skipParseJSDoc ELSE config.skipParseJSDoc,
      inferredTypes  |-> IF IsString(flags.inferredTypes)
                         THEN flags.inferredTypes ELSE config.inferredTypes ]

\* generate lines 234-246 after the source was read: the core generation
CoreGeneration(t, circular, diagnostics) ==
    /\ generateOptions' = [ generateOptions EXCEPT ![t] = GenerateOptionsOf(ConfigOptions, cliFlags) ]
    /\ coreCircular' = [ coreCircular EXCEPT ![t] = circular ]
    /\ coreErrors' = [ coreErrors EXCEPT ![t] = diagnostics ]
    /\ IF CoreFails(circular, OutputProvided(fileConfig[t]))
       THEN /\ FailCall(t, "needOutput")
            /\ error' = [ error EXCEPT ![t] = << "--output= must also be provided" >> ]
            /\ UNCHANGED << validatorCalls, warnings >>
       ELSE ContinueAfterCore(t, diagnostics)

\* the diagnostics a core result carries, the lists the worker returns
DiagnosticCounts == IF mode = "single" THEN 0..MaxDiagnostics ELSE { 0 }
WorkerResults == IF mode = "single" THEN ErrorLists(MaxErrors) ELSE { << >>, << "e1" >> }

ReadDone(t) ==
    /\ stage[t] = "reading"
    /\ \E circular \in BOOLEAN : \E diagnostics \in DiagnosticCounts :
          CoreGeneration(t, circular, diagnostics)
    /\ UNCHANGED << inputVars, discoveryVars, writes, inferredWrites, validationErrors >>
    /\ UNCHANGED << dependencies, generationQueue, generatedConfigIds,
                    totalGeneratedCount, batchToGenerate, batches >>

\* a validation failure that is reported and followed by the write all the same
ValidationDoneWritesAnyway(t, errors) ==
    /\ validationErrors' = [ validationErrors EXCEPT ![t] = errors ]
    /\ stage' = [ stage EXCEPT ![t] = "writing" ]
    /\ IF errors # << >>
       THEN /\ result' = [ result EXCEPT ![t] = "validation" ]
            /\ error' = [ error EXCEPT ![t] = Join(errors, "\n") ]
            /\ IF mode = "nested" /\ pc = "batch"
               THEN /\ pc' = "aborted"
                    /\ errKind' = "batch"
                    /\ errFiles' = { t }
               ELSE UNCHANGED << pc, errKind, errFiles >>
       ELSE UNCHANGED << result, error, pc, errKind, errFiles >>

\* a failure result that carries the first error only
ValidationDoneFirstErrorOnly(t, errors) ==
    /\ validationErrors' = [ validationErrors EXCEPT ![t] = errors ]
    /\ IF errors # << >>
       THEN /\ FailCall(t, "validation")
            /\ error' = [ error EXCEPT ![t] = << Head(errors) >> ]
       ELSE /\ stage' = [ stage EXCEPT ![t] = "writing" ]
            /\ UNCHANGED << result, error, pc, errKind, errFiles >>

\* validateGeneratedContent lines 206-237, generate lines 263-265: the
\* worker has returned its list of errors
ValidationDone(t, errors) ==
    /\ validationErrors' = [ validationErrors EXCEPT ![t] = errors ]
    /\ IF Len(errors) > 0
       THEN /\ FailCall(t, "validation")
            /\ error' = [ error EXCEPT ![t] = Join(errors, "\n") ]
       ELSE /\ stage' = [ stage EXCEPT ![t] = "writing" ]
            /\ UNCHANGED << result, error, pc, errKind, errFiles >>

ValidateDone(t) ==
    /\ stage[t] = "validating"
    /\ \E errors \in WorkerResults : ValidationDone(t, errors)
    /\ UNCHANGED << inputVars, discoveryVars, coreCircular, coreErrors, validatorCalls, writes,
                    inferredWrites, warnings, generateOptions >>
    /\ UNCHANGED << dependencies, generationQueue, generatedConfigIds,
                    totalGeneratedCount, batchToGenerate, batches >>

\* writeOutputFiles, generate line 275 and, in nested mode, lines 394-398
RecordGenerated(t) ==
    generatedConfigIds' = IF mode = "nested"
                          THEN generatedConfigIds \cup { t }
                          ELSE generatedConfigIds

\* writeOutputFiles lines 255-299: the inferred-types file when a path for
\* it is given, then the schema file
WriteOutputFiles(t) ==
    /\ inferredWrites' = [ inferredWrites EXCEPT ![t] =
          IF generateOptions[t].inferredTypes # "undefined" THEN @ + 1 ELSE @ ]
    /\ writes' = [ writes EXCEPT ![t] = @ + 1 ]

WriteDone(t) ==
    /\ stage[t] = "writing"
    /\ WriteOutputFiles(t)
    /\ stage' = [ stage EXCEPT ![t] = "done" ]
    /\ result' = [ result EXCEPT ![t] = "ok" ]
    /\ RecordGenerated(t)
    /\ UNCHANGED << inputVars, discoveryVars, coreCircular, coreErrors, validatorCalls,
                    warnings, validationErrors, error, generateOptions >>
    /\ UNCHANGED << pc, dependencies, generationQueue, totalGeneratedCount,
                    batchToGenerate, batches, errKind, errFiles >>

\* ------------------------------------------------------------------- run
\* generate is called for every file of S: each call runs up to its first
\* await of I/O
StartCalls(S) ==
    /\ stage' = [ f \in Files |->
          IF f \in S THEN StageAfterCall(fileConfig[f]) ELSE stage[f] ]
    /\ result' = [ f \in Files |->
          IF f \in S THEN ResultAfterCall(fileConfig[f]) ELSE result[f] ]
    /\ error' = [ f \in Files |->
          IF f \in S THEN PrepareError(fileConfig[f]) ELSE error[f] ]

\* run lines 146-169: with --all, map starts the generate call of every
\* config; a call that returns a failure reports it and does not exit
RunMultiConfig ==
    IF args.input # "" \/ args.output # ""
    THEN /\ pc' = "aborted"
         /\ errKind' = "usage"
         /\ UNCHANGED << stage, result, error, errFiles >>
    ELSE /\ pc' = "multi"
         /\ StartCalls(Configs)
         /\ errFiles' = { c \in Configs : PrepareOutcome(fileConfig[c]) # "ok" }
         /\ UNCHANGED errKind

\* run lines 127-140, 146-151 and 176
Run ==
    /\ pc = "run"
    /\ CASE mode = "nested" ->
              IF args.input = ""
              THEN /\ pc' = "aborted"
                   /\ errKind' = "usage"
                   /\ UNCHANGED << stack, stage, result, error, errFiles >>
              ELSE /\ pc' = "discover"
                   /\ stack' = << [ file |-> Seed, depth |-> 0, st |-> "call", todo |-> << >> ] >>
                   /\ UNCHANGED << errKind, stage, result, error, errFiles >>
         [] mode = "single" ->
              /\ pc' = "single"
              /\ StartCalls({ Seed })
              /\ UNCHANGED << errKind, stack, errFiles >>
         [] mode = "multi" ->
              /\ RunMultiConfig
              /\ UNCHANGED stack
    /\ UNCHANGED << inputVars, discoveredFileInfos, localImportAbsPaths, depthWarnings,
                    skipped, recordCount, exploreCount, truncatedImports >>
    /\ UNCHANGED << dependencies, generationQueue, generatedConfigIds,
                    totalGeneratedCount, batchToGenerate, batches >>
    /\ UNCHANGED << coreCircular, coreErrors, validatorCalls, writes, inferredWrites, warnings,
                    validationErrors, generateOptions >>

\* run lines 153-169: Promise.all resolved, every config has its outcome
MultiDone ==
    /\ pc = "multi"
    /\ \A c \in Configs : stage[c] \in { "done", "failed" }
    /\ pc' = "done"
    /\ UNCHANGED << inputVars, discoveryVars, schedulerVars, generateVars >>

\* run lines 176-181: the single generate call has returned
SingleDone ==
    /\ pc = "single"
    /\ stage[Seed] \in { "done", "failed" }
    /\ IF result[Seed] = "ok"
       THEN /\ pc' = "done"
            /\ UNCHANGED << errKind, errFiles >>
       ELSE /\ pc' = "aborted"
            /\ errKind' = "generate"
            /\ errFiles' = { Seed }
    /\ UNCHANGED << inputVars, discoveryVars, generateVars >>
    /\ UNCHANGED << dependencies, generationQueue, generatedConfigIds,
                    totalGeneratedCount, batchToGenerate, batches >>

\* --------------------------------------------------- runNestedGeneration
\* line 328: relativePath.replace(/\.tsx?$/, ".zod.ts"), on the extension
ZodOutput(ext) == IF ext \in { ".ts", ".tsx" } THEN ".ts" ELSE ext

\* lines 324-332: the config of a discovered file; an imported file ends
\* in .ts or .tsx (lines 520-523), the seed is the INPUT argument as given
NestedConfig(f) ==
    LET ext == relativePath[f].ext
    IN  [ input |-> ext, output |-> ZodOutput(ext) ]

\* line 328 on the whole path: a.ts and a.tsx become a.zod.ts, any other
\* path is left as it is
OutputPath(f) ==
    LET path == relativePath[f]
    IN  IF path.ext \in { ".ts", ".tsx" }
        THEN Path(path.name, path.zods + 1, ".ts")
        ELSE path

\* dependencies that keep every import, discovered or not
DepsUnfiltered(f) == localImportAbsPaths[f]

\* dependencies that leave out an import of the file itself
DepsAmongDiscoveredButSelf(f) ==
    (localImportAbsPaths[f] \cap Range(discoveredFileInfos)) \ { f }

\* lines 316-323: the dependencies are the imports that were discovered
DepsAmongDiscovered(f) == localImportAbsPaths[f] \cap Range(discoveredFileInfos)

\* lines 304-356
BuildConfigs ==
    /\ pc = "discover" /\ stack = << >>
    /\ IF discoveredFileInfos = << >>
       THEN /\ pc' = "done"
            /\ UNCHANGED << dependencies, fileConfig, generationQueue >>
       ELSE /\ pc' = "loop"
            /\ dependencies' = [ f \in Files |->
                   IF Has(f) THEN DepsAmongDiscovered(f) ELSE { } ]
            /\ fileConfig' = [ f \in Files |->
                   IF Has(f) THEN NestedConfig(f) ELSE NoConfig ]
            /\ generationQueue' = discoveredFileInfos
    /\ UNCHANGED << mode, maxDepth, skipValidation, unreadable, args,
                    inferredTypes, configImports, given, fileOptions,
                    relativePath >>
    /\ UNCHANGED << discoveryVars, generateVars >>
    /\ UNCHANGED << generatedConfigIds, totalGeneratedCount, batchToGenerate,
                    batches, errKind, errFiles >>

\* a scheduler that starts the whole queue, dependencies generated or not
ReadyBatchIgnoringDependencies == generationQueue

\* a scheduler that starts one ready file at a time
ReadyBatchFirstOnly ==
    LET ready == SelectSeqOp(generationQueue,
                    { f \in Files : dependencies[f] \subseteq generatedConfigIds })
    IN  IF ready = << >> THEN << >> ELSE << Head(ready) >>

\* a scheduler that finds ready only the files without dependencies
ReadyBatchRootsOnly ==
    SelectSeqOp(generationQueue, { f \in Files : dependencies[f] = { } })

\* lines 359-363
ReadyBatch ==
    SelectSeqOp(generationQueue,
                { f \in Files : \A depId \in dependencies[f] : depId \in generatedConfigIds })

\* lines 358, 426-428: the queue is empty, the run ends
FinishNested ==
    /\ pc = "loop"
    /\ generationQueue = << >>
    /\ pc' = "done"
    /\ UNCHANGED << inputVars, discoveryVars, schedulerVars, generateVars >>

\* an abort whose message names every discovered file
AbortOrderNamingAll ==
    /\ pc = "loop"
    /\ generationQueue # << >>
    /\ ReadyBatch = << >>
    /\ pc' = "aborted"
    /\ errKind' = "order"
    /\ errFiles' = Range(discoveredFileInfos)
    /\ UNCHANGED << inputVars, discoveryVars, generateVars >>
    /\ UNCHANGED << dependencies, generationQueue, generatedConfigIds,
                    totalGeneratedCount, batchToGenerate, batches >>

\* an abort that forgets what earlier batches generated
AbortOrderRollback ==
    /\ pc = "loop"
    /\ generationQueue # << >>
    /\ ReadyBatch = << >>
    /\ pc' = "aborted"
    /\ errKind' = "order"
    /\ errFiles' = Range(generationQueue)
    /\ generatedConfigIds' = { }
    /\ UNCHANGED << inputVars, discoveryVars, generateVars >>
    /\ UNCHANGED << dependencies, generationQueue,
                    totalGeneratedCount, batchToGenerate, batches >>

\* a loop that finds no ready file and goes round again without raising the error
AbortOrderSpins ==
    /\ pc = "loop"
    /\ generationQueue # << >>
    /\ ReadyBatch = << >>
    /\ UNCHANGED vars

\* lines 365-373
AbortOrder ==
    /\ pc = "loop"
    /\ generationQueue # << >>
    /\ ReadyBatch = << >>
    /\ pc' = "aborted"
    /\ errKind' = "order"
    /\ errFiles' = Range(generationQueue)
    /\ UNCHANGED << inputVars, discoveryVars, generateVars >>
    /\ UNCHANGED << dependencies, generationQueue, generatedConfigIds,
                    totalGeneratedCount, batchToGenerate, batches >>

\* lines 381-406: map starts the generate call of every file of the batch
\* before the loop suspends on Promise.all
StartBatch ==
    /\ pc = "loop"
    /\ generationQueue # << >>
    /\ ReadyBatch # << >>
    /\ batchToGenerate' = ReadyBatch
    /\ batches' = Append(batches, ReadyBatch)
    /\ StartCalls(Range(ReadyBatch))
    /\ LET rejected == SelectSeqOp(ReadyBatch,
                          { f \in Files : PrepareOutcome(fileConfig[f]) # "ok" })
       IN  IF rejected # << >>
           THEN /\ pc' = "aborted"
                /\ errKind' = "batch"
                /\ errFiles' = { Head(rejected) }
           ELSE /\ pc' = "batch"
                /\ UNCHANGED << errKind, errFiles >>
    /\ UNCHANGED << inputVars, discoveryVars, coreCircular, coreErrors, validatorCalls, writes,
                    inferredWrites, warnings, validationErrors, generateOptions >>
    /\ UNCHANGED << dependencies, generationQueue, generatedConfigIds,
                    totalGeneratedCount >>

\* a join that counts the batch as one file
BatchJoinCountsBatches ==
    /\ pc = "batch"
    /\ \A f \in Range(batchToGenerate) : stage[f] = "done"
    /\ totalGeneratedCount' = totalGeneratedCount + 1
    /\ generationQueue' = SelectSeqOp(generationQueue, Files \ Range(batchToGenerate))
    /\ pc' = "loop"
    /\ UNCHANGED << inputVars, discoveryVars, generateVars >>
    /\ UNCHANGED << dependencies, generatedConfigIds, batchToGenerate, batches,
                    errKind, errFiles >>

\* a join that does not wait for the whole batch: it goes on as soon as one
\* call has returned and takes the files generated so far out of the queue
BatchJoinOnFirstDone ==
    /\ pc = "batch"
    /\ \E f \in Range(batchToGenerate) : stage[f] = "done"
    /\ totalGeneratedCount' = totalGeneratedCount + Len(batchToGenerate)
    /\ generationQueue' = SelectSeqOp(generationQueue, Files \ generatedConfigIds)
    /\ pc' = "loop"
    /\ UNCHANGED << inputVars, discoveryVars, generateVars >>
    /\ UNCHANGED << dependencies, generatedConfigIds, batchToGenerate, batches,
                    errKind, errFiles >>

\* lines 409, 416-419: Promise.all resolved
BatchJoin ==
    /\ pc = "batch"
    /\ \A f \in Range(batchToGenerate) : stage[f] = "done"
    /\ totalGeneratedCount' = totalGeneratedCount + Len(batchToGenerate)
    /\ generationQueue' = SelectSeqOp(generationQueue, Files \ Range(batchToGenerate))
    /\ pc' = "loop"
    /\ UNCHANGED << inputVars, discoveryVars, generateVars >>
    /\ UNCHANGED << dependencies, generatedConfigIds, batchToGenerate, batches,
                    errKind, errFiles >>

\* ------------------------------------------------------------------ Spec
Next ==
    \/ Run
    \/ DiscoveryNext
    \/ BuildConfigs
    \/ FinishNested
    \/ AbortOrder
    \/ StartBatch
    \/ BatchJoin
    \/ SingleDone
    \/ MultiDone
    \/ \E t \in Files : ReadDone(t)
    \/ \E t \in Files : ValidateDone(t)
    \/ \E t \in Files : WriteDone(t)

Spec == Init /\ [][Next]_vars

\* Discovery alone; every call of performFileDiscovery is awaited, so a
\* pending step of the traversal is eventually taken.
DiscoverySpec == Init /\ [][Run \/ DiscoveryNext]_vars /\ WF_vars(DiscoveryNext)

\* Spec with the sources of the files that discovery stopped at in view.
CycleSpec == Init /\ [][Next \/ VisitTooDeepImporting]_vars

\* The nested run alone.  Every await of the run is on I/O that completes (a
\* file read, the worker's answer, a file write), so a pending step is
\* eventually taken.
NestedInit == Init /\ mode = "nested"

NestedNext ==
    \/ Run
    \/ DiscoveryNext
    \/ BuildConfigs
    \/ FinishNested
    \/ AbortOrder
    \/ StartBatch
    \/ BatchJoin
    \/ \E t \in Files : ReadDone(t)
    \/ \E t \in Files : ValidateDone(t)
    \/ \E t \in Files : WriteDone(t)

NestedSpec == NestedInit /\ [][NestedNext]_vars /\ WF_vars(NestedNext)

\* One generate call on a TypeScript input, over every choice of the option
\* flags on the command line and of the options in the file config.
OptionsInit ==
    /\ mode = "single"
    /\ maxDepth = DefaultMaxDepth
    /\ skipValidation \in BOOLEAN
    /\ args \in [ input : { "", ".ts" }, output : { "", ".ts" } ]
    /\ fileConfig = [ f \in Files |->
           IF f = Seed THEN [ input |-> ".ts", output |-> ".ts" ] ELSE NoConfig ]
    /\ inferredTypes \in BOOLEAN
    /\ configImports = [ c \in Files |-> { } ]
    /\ given \in [ keepComments : BOOLEAN, skipParseJSDoc : BOOLEAN ]
    /\ fileOptions \in FileOptionChoices
    /\ relativePath = PlainPaths(OrElse(args.input, fileConfig[Seed].input))
    /\ NothingRun

OptionsNext ==
    \/ Run
    \/ ReadDone(Seed)
    \/ ValidateDone(Seed)
    \/ WriteDone(Seed)
    \/ SingleDone

OptionsSpec == OptionsInit /\ [][OptionsNext]_vars

\* The nested run over directories where two files may share a name.
PathsInit ==
    /\ mode = "nested"
    /\ maxDepth \in 0..MaxDepthBound
    /\ skipValidation \in BOOLEAN
    /\ args \in [ input : { ".ts", ".tsx", ".txt" }, output : { "" } ]
    /\ fileConfig = [ f \in Files |-> NoConfig ]
    /\ inferredTypes = FALSE
    /\ configImports = [ c \in Files |-> { } ]
    /\ given = NoFlagsGiven
    /\ fileOptions = NoOptions
    /\ relativePath \in PathChoices(args.input)
    /\ NothingRun

PathsSpec == PathsInit /\ [][NestedNext]_vars

\* ------------------------------------------------------------ properties
Discovered == Range(discoveredFileInfos)

\* C1: in nested mode a file's generate call is started only after the
\* generate call of every discovered file it imports has returned success,
\* its output written, in every interleaving of a batch.
C1_DependenciesGeneratedFirst ==
    mode = "nested" =>
        \A F \in Discovered : \A D \in Discovered :
            (D \in localImportAbsPaths[F] /\ stage[F] # "idle")
                => (stage[D] = "done" /\ result[D] = "ok" /\ writes[D] >= 1)

\* a file is being generated whose imported file went through validation
C1_Witness ==
    \E F \in Discovered : \E D \in Discovered \ { F } :
        /\ D \in localImportAbsPaths[F]
        /\ stage[F] = "validating"
        /\ validatorCalls[D] = 1

\* the calls of generate a step starts
StartedCalls == { f \in Files : stage[f] = "idle" /\ stage'[f] # "idle" }

\* C2: the batch a loop iteration starts is exactly the set of discovered
\* files not generated yet whose every dependency is generated.
C2_BatchIsExactlyReadyFiles ==
    [][ (pc = "loop" /\ batches' # batches) =>
          LET ready == { f \in Discovered :
                           /\ f \notin generatedConfigIds
                           /\ dependencies[f] \subseteq generatedConfigIds }
          IN  /\ Range(batchToGenerate') = ready
              /\ StartedCalls = ready
              /\ Len(batchToGenerate') = Cardinality(ready) ]_vars

\* a batch of two files runs while a third file waits in the queue
C2_Witness ==
    /\ pc = "batch"
    /\ Len(batchToGenerate) = 2
    /\ Len(generationQueue) > 2
    /\ generatedConfigIds # { }

\* C3: when files remain and none has all its dependencies generated, the
\* run ends with the order error, whose message names exactly the files of
\* the queue, and none of them is ever generated.
C3_OrderErrorNamesQueue ==
    /\ [][ ( /\ pc = "loop"
             /\ generationQueue # << >>
             /\ \A f \in Range(generationQueue) :
                   ~ (dependencies[f] \subseteq generatedConfigIds) )
           => (pc' = "aborted" /\ errKind' = "order") ]_vars
    /\ [] ( errKind = "order" =>
              /\ pc = "aborted"
              /\ errFiles = Discovered \ generatedConfigIds
              /\ errFiles = Range(generationQueue)
              /\ errFiles # { }
              /\ \A f \in errFiles : stage[f] = "idle" /\ writes[f] = 0 )

\* the order error after an earlier batch was generated
C3_Witness ==
    /\ errKind = "order"
    /\ Cardinality(errFiles) = 2
    /\ generatedConfigIds # { }

\* C4: the abort on a file-level cycle leaves the files of earlier batches
\* generated: no output is deleted or written again, no entry leaves the
\* generated set.
C4_AbortKeepsGenerated ==
    [][ errKind' = "order" =>
          /\ generatedConfigIds' = generatedConfigIds
          /\ writes' = writes
          /\ \A f \in generatedConfigIds : writes'[f] = 1 /\ stage'[f] = "done" ]_vars

\* the order error with two files generated in earlier batches
C4_Witness ==
    /\ errKind = "order"
    /\ Cardinality(generatedConfigIds) = 2
    /\ \A f \in generatedConfigIds : writes[f] = 1

\* a visit of performFileDiscovery to a file the map already holds
VisitsRecorded ==
    /\ pc = "discover" /\ stack # << >>
    /\ Top.st = "call"
    /\ Has(Top.file)

\* C5: discovery records a file at most once and reads its imports at most
\* once; a visit to a recorded file changes nothing and does not recurse.
C5_RecordedOnce ==
    /\ [] ( \A f \in Files : recordCount[f] <= 1 /\ exploreCount[f] <= 1 )
    /\ [] ( Cardinality(Discovered) = Len(discoveredFileInfos) )
    /\ [][ VisitsRecorded =>
            /\ discoveredFileInfos' = discoveredFileInfos
            /\ localImportAbsPaths' = localImportAbsPaths
            /\ depthWarnings' = depthWarnings
            /\ stack' = Pop ]_vars

\* a recorded file was visited again and skipped
C5_Witness ==
    /\ skipped # { }
    /\ pc = "discover" /\ stack = << >>

\* C6: file discovery terminates, whatever the import graph (cycles and
\* self imports included) and whatever maxDepth.
C6_DiscoveryTerminates ==
    (pc = "discover") ~> (pc = "discover" /\ stack = << >>)

\* discovery has returned on a graph with a two-file cycle and a self import
C6_Witness ==
    /\ pc = "discover" /\ stack = << >>
    /\ \E a \in Discovered : \E b \in Discovered \ { a } :
          b \in localImportAbsPaths[a] /\ a \in localImportAbsPaths[b]
    /\ \E f \in Discovered : f \in localImportAbsPaths[f]

\* a visit of performFileDiscovery past maxDepth
VisitsTooDeep ==
    /\ pc = "discover" /\ stack # << >>
    /\ Top.st = "call"
    /\ Top.depth > maxDepth

\* the seed imports two siblings, each imports the shared file 4; maxDepth = 1
Diamond ==
    /\ maxDepth = 1
    /\ localImportAbsPaths[Seed] = { 2, 3 }
    /\ localImportAbsPaths[2] = { 4 }
    /\ localImportAbsPaths[3] = { 4 }

\* C7: a visit deeper than maxDepth records nothing, explores nothing and
\* warns about the file; in the diamond with maxDepth = 1 the shared file
\* is not discovered, is nobody's dependency and is never generated.
C7_DepthTruncation ==
    /\ [][ VisitsTooDeep =>
            /\ discoveredFileInfos' = discoveredFileInfos
            /\ localImportAbsPaths' = localImportAbsPaths
            /\ exploreCount' = exploreCount
            /\ stack' = Pop
            /\ Top.file \in depthWarnings' ]_vars
    /\ [] ( Diamond =>
              /\ 4 \notin Discovered
              /\ 4 \in depthWarnings
              /\ \A f \in Files : 4 \notin dependencies[f]
              /\ 4 \notin generatedConfigIds
              /\ stage[4] = "idle" /\ writes[4] = 0 )

\* the diamond was generated to the end without the shared file
C7_Witness ==
    /\ Diamond
    /\ pc = "done"
    /\ generatedConfigIds = { 1, 2, 3 }
    /\ totalGeneratedCount = 3

\* C8 as stated: when a file of a batch fails, no file of that batch has
\* its output written or is recorded as generated.
C8_AllOrNothingBatch ==
    errKind = "batch" =>
        \A f \in Range(batchToGenerate) :
            writes[f] = 0 /\ f \notin generatedConfigIds

\* C8 as amended: a failing batch is not committed by the scheduler (the
\* queue keeps the whole batch, the count is not raised) and the failed file
\* is neither written nor recorded as generated; every other file of the
\* batch is written and recorded exactly when its own generation succeeded.
C8_FailedBatchNotCommitted ==
    errKind = "batch" =>
        /\ \A f \in errFiles :
              /\ f \in Range(batchToGenerate)
              /\ stage[f] = "failed"
              /\ writes[f] = 0
              /\ f \notin generatedConfigIds
        /\ Range(batchToGenerate) \subseteq Range(generationQueue)
        /\ totalGeneratedCount + Len(generationQueue) = Len(discoveredFileInfos)
        /\ \A g \in Range(batchToGenerate) :
              /\ (writes[g] = 1) <=> (stage[g] = "done")
              /\ (g \in generatedConfigIds) <=> (stage[g] = "done")

\* a batch failed after another file of it was written and recorded
C8_Witness ==
    /\ errKind = "batch"
    /\ \E f \in errFiles : result[f] = "validation"
    /\ \E g \in Range(batchToGenerate) :
          writes[g] = 1 /\ g \in generatedConfigIds

\* C9: once a file of a batch has failed, the nested run has raised the
\* batch error for the file that failed first, and it starts no other
\* generate call and no other batch.
C9_FailureStopsScheduling ==
    /\ [] ( (mode = "nested" /\ \E f \in Files : stage[f] = "failed") =>
              /\ pc = "aborted"
              /\ errKind = "batch"
              /\ Cardinality(errFiles) = 1
              /\ \A f \in errFiles : stage[f] = "failed" /\ result[f] # "ok" )
    /\ [][ ( /\ mode = "nested"
             /\ \A g \in Files : stage[g] # "failed"
             /\ \E t \in Files : stage'[t] = "failed" )
           => /\ errKind' = "batch"
              /\ errFiles' \subseteq { t \in Files : stage'[t] = "failed" } ]_vars
    /\ [][ errKind = "batch" =>
            /\ errFiles' = errFiles
            /\ StartedCalls = { }
            /\ batches' = batches
            /\ generationQueue' = generationQueue
            /\ totalGeneratedCount' = totalGeneratedCount
            /\ pc' = "aborted" ]_vars

\* a validation failure aborted the run while files outside the batch wait
C9_Witness ==
    /\ errKind = "batch"
    /\ \E f \in errFiles : result[f] = "validation"
    /\ \E g \in Range(generationQueue) \ Range(batchToGenerate) : stage[g] = "idle"
    /\ \E h \in Range(batchToGenerate) \ errFiles : stage[h] = "failed"

\* neither the OUTPUT argument nor the config names an output path
NoOutputSupplied(t) == GenArgs.output = "" /\ fileConfig[t].output = ""

\* C10: a circular core result without an output path fails the call with
\* the --output message before any validation or write; with an output
\* path the same result goes on to validation and writing.
C10_CircularNeedsOutput ==
    /\ [] ( \A t \in Files :
              result[t] = "needOutput" =>
                  /\ coreCircular[t] /\ NoOutputSupplied(t)
                  /\ stage[t] = "failed"
                  /\ validatorCalls[t] = 0
                  /\ writes[t] = 0 )
    /\ [] ( \A t \in Files :
              (coreCircular[t] /\ NoOutputSupplied(t)) => result[t] = "needOutput" )
    /\ [][ \A t \in Files :
              ( /\ stage[t] = "reading" /\ stage'[t] # "reading"
                /\ coreCircular'[t] /\ ~ NoOutputSupplied(t) )
              => /\ stage'[t] = IF skipValidation THEN "writing" ELSE "validating"
                 /\ result'[t] = "none" ]_vars

\* the single generate call failed for want of an output path
C10_Witness ==
    /\ mode = "single"
    /\ pc = "aborted" /\ errKind = "generate"
    /\ result[Seed] = "needOutput"
    /\ ~ skipValidation

\* C11: with validation enabled, a non-empty list of errors from the
\* type-checking worker makes the generate call return a failure whose error
\* is that list joined by newlines, and neither the schema file nor the
\* inferred-types file of that call is written; an empty list lets the call
\* go on to the write.
C11_ValidationErrorsFailTheCall ==
    \A t \in Files :
        /\ validationErrors[t] # << >> =>
              /\ ~ skipValidation
              /\ stage[t] = "failed"
              /\ result[t] = "validation"
              /\ Len(error[t]) = 2 * Len(validationErrors[t]) - 1
              /\ \A i \in 1..Len(error[t]) :
                    error[t][i] = IF i % 2 = 1 THEN validationErrors[t][(i + 1) \div 2]
                                               ELSE "\n"
              /\ writes[t] = 0
              /\ inferredWrites[t] = 0
        /\ (validatorCalls[t] = 1 /\ stage[t] # "validating" /\ validationErrors[t] = << >>) =>
              /\ stage[t] \in { "writing", "done" }
              /\ result[t] \in { "none", "ok" }
              /\ error[t] = << >>
        /\ result[t] = "validation" => validationErrors[t] # << >>

\* the worker returned two errors to a call that was asked for inferred types
C11_Witness ==
    /\ inferredTypes
    /\ Len(validationErrors[Seed]) = 2
    /\ validationErrors[Seed][1] # validationErrors[Seed][2]
    /\ error[Seed] = << validationErrors[Seed][1], "\n", validationErrors[Seed][2] >>

\* the generate call of t got as far as the validation stage
ReachedValidation(t) ==
    \/ stage[t] \in { "validating", "writing", "done" }
    \/ stage[t] = "failed" /\ result[t] = "validation"

\* C12: with --skipValidation the type-checking worker is never invoked and
\* a call goes from the core generation straight to the write; without it
\* the worker is invoked exactly once by every call that reaches the
\* validation stage, and by no other.
C12_SkipValidationSkipsWorker ==
    \A t \in Files :
        /\ skipValidation =>
              /\ validatorCalls[t] = 0
              /\ stage[t] # "validating"
              /\ result[t] # "validation"
              /\ validationErrors[t] = << >>
        /\ ~ skipValidation =>
              validatorCalls[t] = IF ReachedValidation(t) THEN 1 ELSE 0

\* every config of an --all run was written without the worker
C12_Witness ==
    /\ skipValidation
    /\ mode = "multi" /\ pc = "done"
    /\ \A c \in Configs : writes[c] = 1 /\ validatorCalls[c] = 0

\* the core generation of t's call returned a result that generate accepted
CoreAccepted(t) ==
    /\ stage[t] \notin { "idle", "reading" }
    /\ result[t] \notin { "missingInput", "badExtension", "needOutput" }

StageOrder ==
    { << "idle", "reading" >>, << "idle", "failed" >>,
      << "reading", "validating" >>, << "reading", "writing" >>, << "reading", "failed" >>,
      << "validating", "writing" >>, << "validating", "failed" >>,
      << "writing", "done" >> }

\* C14: within a generate call the stages follow one another as prepare,
\* core generation, validation, write: the source is read only after the
\* check of the paths passed, the worker is invoked only after the core
\* generation succeeded, the output is written only after the validation
\* passed or was skipped, and a call that failed does nothing more.
C14_StagesInOrder ==
    /\ [][ \A t \in Files :
              /\ stage'[t] # stage[t] => << stage[t], stage'[t] >> \in StageOrder
              /\ (stage[t] = "idle" /\ stage'[t] = "reading") =>
                    PrepareOutcome(fileConfig[t]) = "ok"
              /\ (stage[t] = "reading" /\ stage'[t] = "writing") => skipValidation
              /\ (stage[t] = "reading" /\ stage'[t] \in { "validating", "writing" }) =>
                    ~ (coreCircular'[t] /\ NoOutputSupplied(t))
              /\ (stage[t] = "validating" /\ stage'[t] = "writing") =>
                    validationErrors'[t] = << >>
              /\ validatorCalls'[t] # validatorCalls[t] =>
                    (stage[t] = "reading" /\ stage'[t] = "validating")
              /\ (writes'[t] # writes[t] \/ inferredWrites'[t] # inferredWrites[t]) =>
                    (stage[t] = "writing" /\ stage'[t] = "done")
              /\ (coreCircular'[t] # coreCircular[t] \/ warnings'[t] # warnings[t]) =>
                    stage[t] = "reading"
              /\ stage[t] \in { "failed", "done" } =>
                    /\ stage'[t] = stage[t]
                    /\ result'[t] = result[t]
                    /\ writes'[t] = writes[t] ]_vars
    /\ [] ( \A t \in Files :
               /\ writes[t] <= 1 /\ inferredWrites[t] <= writes[t]
               /\ writes[t] = 1 =>
                     /\ stage[t] = "done"
                     /\ skipValidation \/ (validatorCalls[t] = 1 /\ validationErrors[t] = << >>)
               /\ stage[t] = "failed" =>
                     /\ writes[t] = 0 /\ inferredWrites[t] = 0
                     /\ result[t] \notin { "none", "ok" }
               /\ result[t] \in { "missingInput", "badExtension" } =>
                     /\ validatorCalls[t] = 0
                     /\ ~ coreCircular[t] /\ warnings[t] = 0 )

\* a call went through the four stages and wrote both files
C14_Witness ==
    /\ ~ skipValidation /\ inferredTypes
    /\ stage[Seed] = "done"
    /\ validatorCalls[Seed] = 1
    /\ writes[Seed] = 1 /\ inferredWrites[Seed] = 1

\* C15: with --all every config has its own outcome: a config whose
\* generate call returns a failure has its error reported and the run goes
\* on; the step that fails it touches no other config, every other config
\* can still take its next step, and the run ends with every config either
\* failed and reported or successful and written.
C15_ConfigsIndependent ==
    /\ [] ( mode = "multi" =>
              /\ errKind \in { "none", "usage" }
              /\ errKind = "usage" => \A c \in Files : stage[c] = "idle"
              /\ pc # "run" /\ errKind = "none" =>
                    /\ pc \in { "multi", "done" }
                    /\ errFiles = { c \in Configs : stage[c] = "failed" }
                    /\ \A c \in Configs :
                          /\ stage[c] = "reading" => ENABLED ReadDone(c)
                          /\ stage[c] = "validating" => ENABLED ValidateDone(c)
                          /\ stage[c] = "writing" => ENABLED WriteDone(c)
              /\ pc = "done" =>
                    \A c \in Configs :
                       \/ stage[c] = "done" /\ result[c] = "ok" /\ writes[c] = 1
                       \/ stage[c] = "failed" /\ result[c] \notin { "none", "ok" }
                                              /\ writes[c] = 0 /\ c \in errFiles )
    /\ [][ \A c \in Configs :
              (mode = "multi" /\ pc = "multi" /\ stage[c] # "failed" /\ stage'[c] = "failed") =>
                  /\ pc' = "multi"
                  /\ errFiles' = errFiles \cup { c }
                  /\ \A d \in Configs \ { c } :
                        /\ stage'[d] = stage[d] /\ result'[d] = result[d]
                        /\ writes'[d] = writes[d] ]_vars

\* a config failed its validation and the other was written after that
C15_Witness ==
    /\ mode = "multi" /\ pc = "multi"
    /\ \E c \in Configs : \E d \in Configs \ { c } :
          /\ result[c] = "validation" /\ c \in errFiles
          /\ stage[d] = "validating"

\* C16: with --all the generate call of a config whose input imports the
\* output of another config is not started, and its validation loads no
\* output, before the generate call of that other config has returned
\* success.
C16_ImportedConfigGeneratedFirst ==
    mode = "multi" =>
        \A b \in Configs : \A a \in configImports[b] :
            stage[b] # "idle" => (stage[a] = "done" /\ result[a] = "ok")

\* the failures prepareGeneratorConfig returns
PrepareFailures == { "missingInput", "badExtension" }

\* C17: prepareGeneratorConfig returns the expected input errors as failure
\* results: without an input (argument or config) the missing-argument
\* message; with an input that is not TypeScript or an output that is
\* neither TypeScript nor JavaScript a message that lists every offending
\* path.  Such a call returns at once: the source is not read, nothing is
\* generated, validated or written.
C17_PrepareFailuresAreResults ==
    /\ [] ( \A t \in Files :
              LET input  == IF GenArgs.input # "" THEN GenArgs.input ELSE fileConfig[t].input
                  output == IF GenArgs.output # "" THEN GenArgs.output ELSE fileConfig[t].output
                  badIn  == input \notin TYPESCRIPT_EXTENSIONS
                  badOut == /\ output # ""
                            /\ output \notin TYPESCRIPT_EXTENSIONS \cup JAVASCRIPT_EXTENSIONS
              IN  stage[t] # "idle" =>
                    /\ input = "" =>
                          /\ result[t] = "missingInput"
                          /\ error[t] = << "Missing 1 required arg" >>
                    /\ (input # "" /\ (badIn \/ badOut)) =>
                          /\ result[t] = "badExtension"
                          /\ error[t] = << "Unexpected file extension:", "\n" >> \o
                                ( CASE badIn /\ badOut -> << input, "\n", output >>
                                    [] badIn /\ ~ badOut -> << input >>
                                    [] OTHER -> << output >> )
                    /\ (input # "" /\ ~ badIn /\ ~ badOut) => result[t] \notin PrepareFailures
                    /\ result[t] \in PrepareFailures =>
                          /\ stage[t] = "failed"
                          /\ ~ coreCircular[t] /\ coreErrors[t] = 0 /\ warnings[t] = 0
                          /\ validatorCalls[t] = 0
                          /\ writes[t] = 0 /\ inferredWrites[t] = 0 )
    /\ [][ \A t \in Files :
              (result'[t] \in PrepareFailures /\ result[t] \notin PrepareFailures) =>
                  (stage[t] = "idle" /\ stage'[t] = "failed") ]_vars

\* the single call was refused for its input path and its output path
C17_Witness ==
    /\ mode = "single" /\ pc = "aborted" /\ errKind = "generate"
    /\ result[Seed] = "badExtension"
    /\ Len(error[Seed]) = 5
    /\ error[Seed][3] = ".txt" /\ error[Seed][5] = ".txt"

\* what the source of a file imports, as far as the run has read it or
\* left it on disk
DiskImports == [ f \in Files |-> localImportAbsPaths[f] \cup truncatedImports[f] ]

\* the imports between discovered files
DiscoveredImports ==
    LET found == Discovered
    IN  [ f \in Files |-> IF f \in found THEN localImportAbsPaths[f] \cap found
                                       ELSE { } ]

RECURSIVE ReachVia(_, _, _)
\* the files a chain of at most n imports leads to from the files of S
ReachVia(imports, S, n) ==
    LET next == S \cup UNION { imports[f] : f \in S }
    IN  IF n = 0 \/ next = S THEN S ELSE ReachVia(imports, next, n - 1)

\* f and g lie on one import cycle; with f = g: f lies on a cycle, which
\* for a lone file is an import of itself
OnOneCycle(imports, f, g) ==
    /\ g \in ReachVia(imports, imports[f], NumFiles)
    /\ f \in ReachVia(imports, imports[g], NumFiles)

\* C18 as stated: the files of an import cycle end up together: between
\* batches, and at the end of the run, either all of them are generated or
\* none is.
C18_CycleMembersTogether ==
    (mode = "nested" /\ pc \in { "loop", "done" }) =>
        \A f \in Files : \A g \in Files :
            OnOneCycle(DiskImports, f, g) =>
                (f \in generatedConfigIds <=> g \in generatedConfigIds)

\* C18 as amended: the files of an import cycle that discovery recorded
\* whole, a file importing itself included, are never generated: none is
\* ever put into a batch, the run cannot end in success, and the order
\* error names them all.  (A cycle through a file that discovery stopped at
\* is not seen: its recorded files are generated, the other is not.)
C18_DiscoveredCycleNeverGenerated ==
    (mode = "nested" /\ pc \notin { "run", "discover" }) =>
        \A f \in Discovered :
            OnOneCycle(DiscoveredImports, f, f) =>
                /\ stage[f] = "idle"
                /\ f \notin generatedConfigIds
                /\ writes[f] = 0
                /\ \A i \in 1..Len(batches) : f \notin Range(batches[i])
                /\ f \in Range(generationQueue)
                /\ pc # "done"
                /\ errKind = "order" => f \in errFiles

\* the order error on a cycle of two files next to a file importing itself,
\* after a batch was generated
C18_Witness ==
    /\ errKind = "order"
    /\ generatedConfigIds # { }
    /\ \E f \in errFiles : \E g \in errFiles \ { f } :
          /\ OnOneCycle(DiscoveredImports, f, g)
          /\ f \notin localImportAbsPaths[f]
    /\ \E h \in errFiles : h \in localImportAbsPaths[h]

\* performFileDiscovery has returned to runNestedGeneration
DiscoveryOver ==
    /\ mode = "nested"
    /\ \/ pc = "discover" /\ stack = << >>
       \/ pc \in { "loop", "batch", "done" }
       \/ pc = "aborted" /\ errKind # "usage"

\* the files a chain of at most maxDepth imports leads to from the seed
WithinMaxDepth == ReachVia(localImportAbsPaths, { Seed }, maxDepth)

\* C19: after discovery every readable file that some chain of at most
\* maxDepth imports leads to from the seed is in the discovered set,
\* whatever the order of the imports and whatever longer chains there are.
C19_AllWithinMaxDepthDiscovered ==
    DiscoveryOver =>
        \A f \in WithinMaxDepth \ unreadable : f \in Discovered

\* C20: every recorded file is at most maxDepth imports away from the seed,
\* and the dependencies of a file to generate are its imports among the
\* discovered files: no file that maxDepth cut off, that could not be read
\* or that is not a TypeScript file is a dependency.
C20_RecordedWithinDepthDepsDiscovered ==
    mode = "nested" =>
        /\ Discovered \subseteq WithinMaxDepth
        /\ Discovered \cap unreadable = { }
        /\ \A f \in Files :
              /\ dependencies[f] \subseteq Discovered
              /\ dependencies[f] \cap unreadable = { }
              /\ dependencies[f] \cap (depthWarnings \ Discovered) = { }
              /\ Seed \in dependencies[f] => args.input \in TYPESCRIPT_EXTENSIONS
              /\ pc \in { "loop", "batch", "done", "aborted" } /\ f \in Discovered =>
                    dependencies[f] = { g \in Discovered : g \in localImportAbsPaths[f] }
              /\ f \notin Discovered => dependencies[f] = { }

\* the configs were built for a file one of whose imports was cut off by
\* maxDepth and another could not be read
C20_Witness ==
    /\ pc = "loop"
    /\ \E f \in Discovered :
          /\ localImportAbsPaths[f] \cap (depthWarnings \ Discovered) # { }
          /\ dependencies[f] # { }
    /\ \E f \in Discovered : localImportAbsPaths[f] \cap unreadable # { }

\* no discovered file lies on a cycle of imports between discovered files
AcyclicDiscovered ==
    \A f \in Discovered : ~ OnOneCycle(DiscoveredImports, f, f)

\* C21: the loop of the nested generation terminates: an iteration ends in
\* the order error, in the batch error or with a queue that lost at least
\* one file; the loop is left for good; and with an acyclic graph of
\* discovered files and no failing generation the run ends normally, with
\* an empty queue.
C21_LoopTerminates ==
    /\ [][ /\ (pc = "loop" /\ generationQueue # << >>) =>
                \/ pc' = "batch" /\ generationQueue' = generationQueue
                \/ pc' = "aborted" /\ errKind' \in { "order", "batch" }
           /\ (pc = "batch" /\ pc' # "batch") =>
                \/ pc' = "aborted" /\ errKind' = "batch"
                \/ /\ pc' = "loop"
                   /\ Len(generationQueue') < Len(generationQueue)
                   /\ Range(generationQueue') \subseteq Range(generationQueue)
           /\ pc \in { "done", "aborted" } => pc' = pc ]_vars
    /\ (pc = "loop") ~> (pc \in { "done", "aborted" })
    /\ [] ( pc = "done" => generationQueue = << >> /\ errKind = "none" )
    /\ [] ( (DiscoveryOver /\ AcyclicDiscovered) => errKind # "order" )
    /\ (pc = "loop" /\ AcyclicDiscovered) ~>
          \/ pc = "done" /\ generationQueue = << >>
          \/ \E f \in Files : stage[f] = "failed"

\* a run of three batches ended normally
C21_Witness ==
    /\ pc = "done"
    /\ Len(batches) = 3
    /\ generationQueue = << >>
    /\ AcyclicDiscovered

\* C22: at the start of every iteration of the loop the queue and the set
\* of generated files are disjoint and make up the discovered set, the
\* queue holds no file twice and totalGeneratedCount is the size of the
\* generated set; a run that ends normally has generated every discovered
\* file exactly once and reports the number of discovered files.
C22_QueueAndGeneratedPartition ==
    /\ (mode = "nested" /\ pc = "loop") =>
          /\ Range(generationQueue) \cap generatedConfigIds = { }
          /\ Range(generationQueue) \cup generatedConfigIds = Discovered
          /\ Len(generationQueue) = Cardinality(Range(generationQueue))
          /\ totalGeneratedCount = Cardinality(generatedConfigIds)
          /\ \A f \in generatedConfigIds : stage[f] = "done" /\ writes[f] = 1
          /\ \A f \in Range(generationQueue) : stage[f] = "idle" /\ writes[f] = 0
    /\ (mode = "nested" /\ pc = "done") =>
          /\ generatedConfigIds = Discovered
          /\ totalGeneratedCount = Cardinality(Discovered)
          /\ \A f \in Discovered : writes[f] = 1 /\ result[f] = "ok"
          /\ \A f \in Files \ Discovered : writes[f] = 0

\* an iteration starts with two files generated, in one batch, and two waiting
C22_Witness ==
    /\ pc = "loop"
    /\ Len(batches) = 1
    /\ totalGeneratedCount = 2
    /\ Len(generationQueue) = 2

\* the discovered files that lie on a cycle of imports between discovered files
CycleMembers == { f \in Discovered : OnOneCycle(DiscoveredImports, f, f) }

\* the cycle members and the discovered files whose imports lead to one
DependOnCycle ==
    { f \in Discovered :
        ReachVia(DiscoveredImports, { f }, NumFiles) \cap CycleMembers # { } }

\* C23: the order error is raised only when the discovered files hold a
\* cycle, and then after every discovered file whose imports lead to no
\* file of a cycle was generated; the error names exactly the cycle members
\* and the files whose imports lead to them.  With a cycle among the
\* discovered files the run never ends normally.
C23_OrderErrorAfterIndependentFiles ==
    /\ (mode = "nested" /\ errKind = "order") =>
          /\ CycleMembers # { }
          /\ errFiles = DependOnCycle
          /\ generatedConfigIds = Discovered \ DependOnCycle
          /\ \A f \in Discovered \ DependOnCycle :
                stage[f] = "done" /\ result[f] = "ok" /\ writes[f] = 1
          /\ \A f \in Files : stage[f] # "failed"
    /\ (mode = "nested" /\ pc = "done") => CycleMembers = { }

\* the order error names a cycle of two files and a file that imports one
\* of them, after a file off the cycle was generated
C23_Witness ==
    /\ errKind = "order"
    /\ generatedConfigIds # { }
    /\ \E f \in CycleMembers : \E g \in CycleMembers \ { f } :
          OnOneCycle(DiscoveredImports, f, g)
    /\ errFiles \ CycleMembers # { }

MaxOf(S) == CHOOSE x \in S : \A y \in S : y <= x

RECURSIVE Height(_, _)
\* the length of the longest chain of dependencies below f, followed for n
\* steps at most (n = NumFiles covers every chain without a cycle)
Height(f, n) ==
    IF n = 0 \/ dependencies[f] = { } THEN 0
    ELSE 1 + MaxOf({ Height(d, n - 1) : d \in dependencies[f] })

\* the length of the longest chain of dependencies below f.  A file whose
\* imports lead to a cycle has chains of every length: its level is
\* NumFiles, one more than any chain without a cycle can have.
Level(f) == Height(f, NumFiles)

\* C24: the sequence of batches is a function of the discovered dependency
\* graph: whichever call of a batch returns first, the i-th batch started
\* is the files whose level is i - 1, in the order of their discovery, and
\* a run in which every generation succeeds ends with every discovered file
\* in the batch of its level.
C24_BatchesDeterminedByGraph ==
    mode = "nested" =>
        /\ \A i \in 1..Len(batches) :
              batches[i] = SelectSeqOp(discoveredFileInfos, Range(batches[i]))
        /\ \A f \in Discovered :
              LET level == Level(f)
              IN  /\ \A i \in 1..Len(batches) :
                        (f \in Range(batches[i])) <=> (level = i - 1)
                  /\ pc = "done" => level < Len(batches)
        /\ pc = "batch" => batchToGenerate = batches[Len(batches)]

\* in the second batch the call started last has returned while the call
\* started first still reads its source
C24_Witness ==
    /\ pc = "batch"
    /\ Len(batches) = 2
    /\ Len(batchToGenerate) = 2
    /\ stage[batchToGenerate[2]] = "done"
    /\ stage[batchToGenerate[1]] = "reading"

\* the core generation of t's call was handed its options
OptionsHanded(t) == stage[t] \in { "validating", "writing", "done" }

\* what the core generation makes of a boolean option: no value is false
Truthy(v) == v = "true"

\* C25: the options keepComments, skipParseJSDoc and inferredTypes handed
\* to the core generation are those of the command line where the user
\* passed the flag, and those of the file config otherwise; a file config
\* with skipParseJSDoc true and no --skipParseJSDoc reaches the core with
\* skipParseJSDoc true.
C25_FlagsOverrideOnlyWhenGiven ==
    \A t \in Files :
        (mode # "nested" /\ OptionsHanded(t)) =>
            /\ Truthy(generateOptions[t].keepComments) =
                  IF given.keepComments THEN TRUE ELSE Truthy(fileOptions.keepComments)
            /\ Truthy(generateOptions[t].skipParseJSDoc) =
                  IF given.skipParseJSDoc THEN TRUE ELSE Truthy(fileOptions.skipParseJSDoc)
            /\ generateOptions[t].inferredTypes =
                  IF inferredTypes THEN "cli.ts" ELSE fileOptions.inferredTypes

\* C26: in nested mode no two discovered files are assigned one output
\* path and no output path assigned is the path of a discovered file, so
\* no two generations write one file and none writes over a source of the
\* run.
C26_OutputPathsDistinct ==
    (mode = "nested" /\ pc \in { "loop", "batch", "done", "aborted" }) =>
        \A f \in Discovered : \A g \in Discovered :
            /\ f # g => OutputPath(f) # OutputPath(g)
            /\ OutputPath(f) # relativePath[g]
            /\ (f # g /\ writes[f] = 1) =>
                  ~ (writes[g] = 1 /\ OutputPath(g) = OutputPath(f))

=============================================================================
